---- MODULE Spec2Model ----
(***************************************************************************)
(* The real-time connection hub of ApoloTeams (backend/src/websocket.rs):  *)
(* the WebSocketServer registry (connections, presence, channel and call   *)
(* subscription tables), the per-connection session task ws_handler with   *)
(* one action per inbound frame, and the hub calls made by the HTTP        *)
(* handlers.                                                               *)
(*                                                                         *)
(* Every hub method is an operator from a hub record to a hub record (or   *)
(* to the list of sender.send calls it makes); a frame handler is one      *)
(* action that threads the hub through the calls the handler makes, in the *)
(* order the code makes them.                                              *)
(***************************************************************************)
EXTENDS Integers, Sequences, FiniteSets, TLC

----------------------------------------------------------------------------
(* Bounds of the model *)

\* number of connections (session tasks) a behaviour opens
NumSessions == 2

\* capacity of a user's broadcast channel in the model (the code creates it
\* with broadcast::channel(100))
Capacity == 2
\* number of send passes a behaviour of the forwarding specification makes
MaxPushes == 4
\* the strings given to the validators: a word of at most MaxWord characters
\* of the alphabet, before or after a run of at most MaxPad letters
MaxWord == 2
MaxPad == 101

Users == {"A", "B"}
Channels == {"general"}
Calls == {"c1"}
Sessions == 1..NumSessions

\* Option::None of a user id, and the session number of a call that comes
\* from an HTTP handler instead of a socket session
None == "none"
Http == 0

\* statuses a client puts in an UpdateStatus frame
StatusInputs == {"away"}
\* the durable memberships a behaviour starts from: everybody a member of
\* every channel, or user A alone
Memberships == {[c \in Channels |-> Users], [c \in Channels |-> {"A"}]}
\* the durable participant list of every call (table call_participants):
\* user A alone
call_participants == [c \in Calls |-> {"A"}]
\* the from_user_id a client may put in a signaling frame
ClientFrom == Users
\* the channel a call belongs to (calls.channel_id) and the user who started
\* it (calls.initiator_id)
call_channel == [c \in Calls |-> "general"]
call_initiator == [c \in Calls |-> "A"]
Sdp == "v=0"
Content == "hi"

----------------------------------------------------------------------------
(* DashMap: a partial map, as a function on the set of its keys *)

MapInsert(m, k, v) == [x \in (DOMAIN m) \cup {k} |-> IF x = k THEN v ELSE m[x]]
MapRemove(m, k) == [x \in (DOMAIN m) \ {k} |-> m[x]]
EmptyMap == [x \in {} |-> None]

\* the elements of a set in the order one iteration of the set visits them
RECURSIVE SetToSeq(_)
SetToSeq(S) ==
  IF S = {} THEN <<>>
  ELSE LET x == CHOOSE y \in S : TRUE IN <<x>> \o SetToSeq(S \ {x})

----------------------------------------------------------------------------
(* Wire messages *)

\* a WebSocketMessage: its variant and the fields of the variant
Msg(type, fields) == [type |-> type, payload |-> fields]

\* serde_json::to_string of the tagged envelope {"type": .., "payload": ..}
to_string(msg) == <<"type", msg.type, "payload">> \o msg.payload

----------------------------------------------------------------------------
(* WebSocketServer *)

new ==
  [connections |-> EmptyMap,
   channel_subscriptions |-> EmptyMap,
   user_statuses |-> EmptyMap,
   call_subscriptions |-> EmptyMap]

\* The broadcast::channel(100) a register call creates: the session whose
\* forwarding task is given the receiver, and the user the sender is stored for
Sender(s, user) == [sess |-> s, user |-> user]

\* h is the sender of the fresh channel (tx)
register(hub, user, h) ==
  [hub EXCEPT !.connections = MapInsert(@, user, h),
              !.user_statuses = MapInsert(@, user, "online")]

unregister(hub, user) ==
  [hub EXCEPT !.connections = MapRemove(@, user),
              !.user_statuses = MapInsert(@, user, "offline"),
              !.channel_subscriptions = [c \in DOMAIN @ |-> @[c] \ {user}],
              !.call_subscriptions = [c \in DOMAIN @ |-> @[c] \ {user}]]

subscribe_to_channel(hub, channel, user) ==
  [hub EXCEPT !.channel_subscriptions =
     MapInsert(@, channel,
               (IF channel \in DOMAIN @ THEN @[channel] ELSE {}) \cup {user})]

unsubscribe_from_channel(hub, channel, user) ==
  IF channel \in DOMAIN hub.channel_subscriptions
  THEN [hub EXCEPT !.channel_subscriptions[channel] = @ \ {user}]
  ELSE hub

subscribe_to_call(hub, call, user) ==
  [hub EXCEPT !.call_subscriptions =
     MapInsert(@, call,
               (IF call \in DOMAIN @ THEN @[call] ELSE {}) \cup {user})]

unsubscribe_from_call(hub, call, user) ==
  IF call \in DOMAIN hub.call_subscriptions
  THEN [hub EXCEPT !.call_subscriptions[call] = @ \ {user}]
  ELSE hub

update_user_status(hub, user, status) ==
  [hub EXCEPT !.user_statuses = MapInsert(@, user, status)]

get_user_status(hub, user) ==
  IF user \in DOMAIN hub.user_statuses THEN hub.user_statuses[user] ELSE "offline"

get_call_participants(hub, call) ==
  IF call \in DOMAIN hub.call_subscriptions THEN hub.call_subscriptions[call] ELSE {}

remove_call(hub, call) ==
  [hub EXCEPT !.call_subscriptions = MapRemove(@, call)]

\* One sender.send(json) call: the user it is for, the sender it is made on
SendCall(user, h, json) == [to |-> user, handle |-> h, json |-> json]

\* the send calls of one pass over `members`, skipping the excluded user and
\* the users with no entry in the connections map
RECURSIVE SendLoop(_, _, _, _)
SendLoop(hub, members, json, exclude) ==
  IF members = <<>> THEN <<>>
  ELSE LET u == Head(members)
           rest == SendLoop(hub, Tail(members), json, exclude)
       IN IF u # exclude /\ u \in DOMAIN hub.connections
          THEN <<SendCall(u, hub.connections[u], json)>> \o rest
          ELSE rest

send_to_user(hub, user, msg) ==
  IF user \in DOMAIN hub.connections
  THEN <<SendCall(user, hub.connections[user], to_string(msg))>>
  ELSE <<>>

\* broadcast_to_channel without the `Some(*user_id) == exclude_user` skip
broadcast_to_channel_no_skip(hub, chan, msg, exclude) ==
  IF chan \in DOMAIN hub.channel_subscriptions
  THEN SendLoop(hub, SetToSeq(hub.channel_subscriptions[chan]), to_string(msg), None)
  ELSE <<>>

broadcast_to_channel(hub, channel, msg, exclude) ==
  IF channel \in DOMAIN hub.channel_subscriptions
  THEN SendLoop(hub, SetToSeq(hub.channel_subscriptions[channel]), to_string(msg), exclude)
  ELSE <<>>

broadcast_to_all(hub, msg, exclude) ==
  LET json == to_string(msg)
      keys == SetToSeq(DOMAIN hub.connections)
  IN SendLoop(hub, keys, json, exclude)

send_to_call_participants(hub, call, msg, exclude) ==
  IF call \in DOMAIN hub.call_subscriptions
  THEN SendLoop(hub, SetToSeq(hub.call_subscriptions[call]), to_string(msg), exclude)
  ELSE <<>>

----------------------------------------------------------------------------
(* State *)

VARIABLES
  hub,              \* the WebSocketServer shared by every task
  user_id,          \* per session: ws_handler's local user_id (None or a user;
                    \* None again once the task has ended and the local is gone)
  running,          \* per session: the loop of the session task takes frames
  channel_members,  \* durable channel membership held by the persistence layer
  unregistered,     \* users for whom unregister returned since their last register
  lastOp,           \* the step just taken: the frame or call, the session,
                    \* the reply written to the client, the send calls made
  chans,            \* the broadcast channels created by register, by sender:
                    \* buffer, lag mark, forwarding task, history
  pushes,           \* number of send passes made so far
  validated,        \* the validation call just made: function, input, result
  pc                \* per session: where the task stands inside a hub call
                    \* or an arm that is followed step by step

vars == <<hub, user_id, running, channel_members, unregistered, lastOp, chans, pushes, validated, pc>>

\* user: the session's user_id when it took the frame (the caller of an HTTP
\* handler); scope: the channel or call of the frame; from: the from_user_id
\* a client wrote in a signaling frame
Op(kind, s, user, scope, reply, sends) ==
  [kind |-> kind, sess |-> s, user |-> user, scope |-> scope, from |-> None,
   reply |-> reply, sends |-> sends]

\* a task outside every hub call that is followed step by step; a task at a
\* label inside one: what is left of the call, and the map locks it holds
Idle == [at |-> "idle", todo |-> <<>>, held |-> {}]
At(label) == [at |-> label, todo |-> <<>>, held |-> {}]

Init ==
  /\ hub = new
  /\ user_id = [s \in Sessions |-> None]
  /\ running = [s \in Sessions |-> TRUE]
  /\ channel_members \in Memberships
  /\ unregistered = {}
  /\ lastOp = Op("init", Http, None, None, "none", <<>>)
  /\ chans = EmptyMap
  /\ pushes = 0
  /\ validated = [fn |-> None, input |-> <<>>, result |-> FALSE]
  /\ pc = [s \in Sessions |-> Idle]

\* What every handler that neither registers nor ends the session leaves alone
SessionKept == UNCHANGED <<user_id, running, channel_members, unregistered>>

\* The hub after the handler, the send calls it made, and the record of the step
Commit(op, hub2) ==
  /\ hub' = hub2
  /\ lastOp' = op
  /\ UNCHANGED <<chans, pushes, validated, pc>>

----------------------------------------------------------------------------
(* ws_handler: one action per inbound frame of session s *)

\* Authenticate whose token verifies as `uid`; gu: get_user succeeded
AuthenticateOk(s, uid, gu) ==
  /\ running[s]
  /\ user_id' = [user_id EXCEPT ![s] = uid]
  /\ hub' = register(hub, uid, Sender(s, uid))
  /\ unregistered' = unregistered \ {uid}
  /\ lastOp' = Op("Authenticate", s, uid, None, IF gu THEN "Authenticated" ELSE "none", <<>>)
  /\ UNCHANGED <<running, channel_members, chans, pushes, validated, pc>>

\* Authenticate whose token does not verify
AuthenticateFail(s) ==
  /\ running[s]
  /\ Commit(Op("Authenticate", s, user_id[s], None, "Error", <<>>), hub)
  /\ SessionKept

\* JoinChannel without the is_member match: it subscribes whatever the lookup says
JoinChannel_no_member_check(s, c, dbOk, gu) ==
  LET uid == user_id[s]
      hub1 == IF uid # None THEN subscribe_to_channel(hub, c, uid) ELSE hub
      msg == Msg("UserJoinedChannel", <<c, uid>>)
      sends == IF uid # None /\ gu THEN broadcast_to_channel(hub1, c, msg, uid) ELSE <<>>
  IN /\ running[s]
     /\ Commit(Op("JoinChannel", s, uid, c, "none", sends), hub1)
     /\ SessionKept

\* dbOk: the membership lookup did not fail; gu: get_user succeeded
JoinChannel(s, c, dbOk, gu) ==
  LET uid == user_id[s]
      member == dbOk /\ uid \in channel_members[c]
      hub1 == IF uid # None /\ member THEN subscribe_to_channel(hub, c, uid) ELSE hub
      msg == Msg("UserJoinedChannel", <<c, uid>>)
      sends == IF uid # None /\ member /\ gu
               THEN broadcast_to_channel(hub1, c, msg, uid) ELSE <<>>
  IN /\ running[s]
     /\ Commit(Op("JoinChannel", s, uid, c, "none", sends), hub1)
     /\ SessionKept

\* LeaveChannel that sends the notice and keeps the subscription
LeaveChannel_keeps_subscription(s, c) ==
  LET uid == user_id[s]
      msg == Msg("UserLeftChannel", <<c, uid>>)
      sends == IF uid # None THEN broadcast_to_channel(hub, c, msg, uid) ELSE <<>>
  IN /\ running[s]
     /\ Commit(Op("LeaveChannel", s, uid, c, "none", sends), hub)
     /\ SessionKept

LeaveChannel(s, c) ==
  LET uid == user_id[s]
      hub1 == IF uid # None THEN unsubscribe_from_channel(hub, c, uid) ELSE hub
      msg == Msg("UserLeftChannel", <<c, uid>>)
      sends == IF uid # None THEN broadcast_to_channel(hub1, c, msg, uid) ELSE <<>>
  IN /\ running[s]
     /\ Commit(Op("LeaveChannel", s, uid, c, "none", sends), hub1)
     /\ SessionKept

\* MessageService::send_message: refuses a sender who is no durable member,
\* and fails when the store does
send_message(c, uid, dbOk) == dbOk /\ uid \in channel_members[c]

\* SendMessage that skips the sender, as the HTTP handler does
SendMessage_exclude_sender(s, c, dbOk) ==
  LET uid == user_id[s]
      ok == uid # None /\ send_message(c, uid, dbOk)
      msg == Msg("NewMessage", <<c, uid, Content>>)
      sends == IF ok THEN broadcast_to_channel(hub, c, msg, uid) ELSE <<>>
  IN /\ running[s]
     /\ Commit(Op("SendMessage", s, uid, c, "none", sends), hub)
     /\ SessionKept

SendMessage(s, c, dbOk) ==
  LET uid == user_id[s]
      ok == uid # None /\ send_message(c, uid, dbOk)
      msg == Msg("NewMessage", <<c, uid, Content>>)
      sends == IF ok THEN broadcast_to_channel(hub, c, msg, None) ELSE <<>>
  IN /\ running[s]
     /\ Commit(Op("SendMessage", s, uid, c, "none", sends), hub)
     /\ SessionKept

StartTyping(s, c, gu) ==
  LET uid == user_id[s]
      msg == Msg("UserTyping", <<c, uid>>)
      sends == IF uid # None /\ gu THEN broadcast_to_channel(hub, c, msg, uid) ELSE <<>>
  IN /\ running[s]
     /\ Commit(Op("StartTyping", s, uid, c, "none", sends), hub)
     /\ SessionKept

StopTyping(s, c) ==
  LET uid == user_id[s]
      msg == Msg("UserStoppedTyping", <<c, uid>>)
      sends == IF uid # None THEN broadcast_to_channel(hub, c, msg, uid) ELSE <<>>
  IN /\ running[s]
     /\ Commit(Op("StopTyping", s, uid, c, "none", sends), hub)
     /\ SessionKept

\* dbOk: UserService::update_status succeeded; its result is dropped (let _ =)
UpdateStatus(s, status, dbOk) ==
  LET uid == user_id[s]
      hub1 == IF uid # None THEN update_user_status(hub, uid, status) ELSE hub
      msg == Msg("UserStatusChanged", <<uid, status>>)
      sends == IF uid # None THEN broadcast_to_all(hub1, msg, uid) ELSE <<>>
  IN /\ running[s]
     /\ Commit(Op("UpdateStatus", s, uid, None, "none", sends), hub1)
     /\ SessionKept

\* JoinCall without the `if let Some(uid) = user_id`
JoinCall_no_auth_check(s, call) ==
  LET uid == user_id[s]
      hub1 == subscribe_to_call(hub, call, uid)
  IN /\ running[s]
     /\ Commit(Op("JoinCall", s, uid, call, "none", <<>>), hub1)
     /\ SessionKept

JoinCall(s, call) ==
  LET uid == user_id[s]
      hub1 == IF uid # None THEN subscribe_to_call(hub, call, uid) ELSE hub
  IN /\ running[s]
     /\ Commit(Op("JoinCall", s, uid, call, "none", <<>>), hub1)
     /\ SessionKept

LeaveCall(s, call) ==
  LET uid == user_id[s]
      hub1 == IF uid # None THEN unsubscribe_from_call(hub, call, uid) ELSE hub
      msg == Msg("ParticipantLeft", <<call, uid>>)
      sends == IF uid # None THEN send_to_call_participants(hub1, call, msg, uid) ELSE <<>>
  IN /\ running[s]
     /\ Commit(Op("LeaveCall", s, uid, call, "none", sends), hub1)
     /\ SessionKept

\* A relay that keeps the from_user_id the client wrote
SignalMsg_client_from(kind, call, uid, from) == Msg(kind, <<call, from, Sdp>>)

\* The message a signaling arm relays: from_user_id is the session's user,
\* the from_user_id the client wrote is dropped (from_user_id: _)
SignalMsg(kind, call, uid, from) == Msg(kind, <<call, uid, Sdp>>)

\* The three signaling arms: kind is the variant
WebRTC(s, kind, call, from) ==
  LET uid == user_id[s]
      msg == SignalMsg(kind, call, uid, from)
      sends == IF uid # None THEN send_to_call_participants(hub, call, msg, uid) ELSE <<>>
  IN /\ running[s]
     /\ Commit([Op(kind, s, uid, call, "none", sends) EXCEPT !.from = from], hub)
     /\ SessionKept

\* Message::Ping: answered with a pong
Ping(s) ==
  /\ running[s]
  /\ Commit(Op("Ping", s, user_id[s], None, "Pong", <<>>), hub)
  /\ SessionKept

\* A text frame that parses into no variant, or into a variant the match
\* ignores; a binary or pong frame
IgnoredFrame(s) ==
  /\ running[s]
  /\ Commit(Op("Ignored", s, user_id[s], None, "none", <<>>), hub)
  /\ SessionKept

\* Message::Close: the arm, its break, and the cleanup after the loop
Close(s) ==
  LET uid == user_id[s]
      hub1 == IF uid # None THEN unregister(hub, uid) ELSE hub
      msg == Msg("UserStatusChanged", <<uid, "offline">>)
      sends == IF uid # None THEN broadcast_to_all(hub1, msg, uid) ELSE <<>>
      hub2 == IF uid # None THEN unregister(hub1, uid) ELSE hub1
  IN /\ running[s]
     /\ Commit(Op("Close", s, uid, None, "none", sends), hub2)
     /\ running' = [running EXCEPT ![s] = FALSE]
     /\ user_id' = [user_id EXCEPT ![s] = None]
     /\ unregistered' = IF uid # None THEN unregistered \cup {uid} ELSE unregistered
     /\ UNCHANGED channel_members

\* msg_stream.next() gives None or an error: the loop ends with no Close
\* frame, and the cleanup after the loop runs
StreamEnd(s) ==
  LET uid == user_id[s]
      hub1 == IF uid # None THEN unregister(hub, uid) ELSE hub
  IN /\ running[s]
     /\ Commit(Op("StreamEnd", s, uid, None, "none", <<>>), hub1)
     /\ running' = [running EXCEPT ![s] = FALSE]
     /\ user_id' = [user_id EXCEPT ![s] = None]
     /\ unregistered' = IF uid # None THEN unregistered \cup {uid} ELSE unregistered
     /\ UNCHANGED channel_members

----------------------------------------------------------------------------
(* Hub calls of the HTTP handlers *)

HttpKept == UNCHANGED <<user_id, running, channel_members, unregistered>>

\* handlers/calls.rs start_call, direct call: CallStarted to the target user
HttpStartDirectCall(target) ==
  LET msg == Msg("CallStarted", <<target>>)
  IN /\ Commit(Op("HttpStartDirectCall", Http, None, target, "none", send_to_user(hub, target, msg)), hub)
     /\ HttpKept

\* handlers/messages.rs send_message: NewMessage to the channel, sender excluded
HttpSendMessage(u, c, dbOk) ==
  LET ok == send_message(c, u, dbOk)
      msg == Msg("NewMessage", <<c, u, Content>>)
      sends == IF ok THEN broadcast_to_channel(hub, c, msg, u) ELSE <<>>
  IN /\ Commit(Op("HttpSendMessage", Http, u, c, "none", sends), hub)
     /\ HttpKept

\* handlers/calls.rs end_call by user u: when get_call and end_call succeed
\* (dbOk: the store answers; u is a durable member of the call's channel and
\* the call's initiator), CallEnded goes to the call's subscribers, then to
\* the subscribers of the call's channel, and the call's entry is removed
HttpEndCall(u, call, dbOk) ==
  LET channel_id == call_channel[call]
      ok == dbOk /\ u \in channel_members[channel_id] /\ u = call_initiator[call]
      msg == Msg("CallEnded", <<call>>)
      sends == IF ok
               THEN send_to_call_participants(hub, call, msg, None)
                      \o broadcast_to_channel(hub, channel_id, msg, None)
               ELSE <<>>
      hub1 == IF ok THEN remove_call(hub, call) ELSE hub
  IN /\ Commit(Op("HttpEndCall", Http, u, call, "none", sends), hub1)
     /\ HttpKept

----------------------------------------------------------------------------

SignalKinds == {"WebRTCOffer", "WebRTCAnswer", "WebRTCIceCandidate"}

Next ==
  \/ \E s \in Sessions, u \in Users, gu \in BOOLEAN : AuthenticateOk(s, u, gu)
  \/ \E s \in Sessions : AuthenticateFail(s)
  \/ \E s \in Sessions, c \in Channels, dbOk \in BOOLEAN, gu \in BOOLEAN : JoinChannel(s, c, dbOk, gu)
  \/ \E s \in Sessions, c \in Channels : LeaveChannel(s, c)
  \/ \E s \in Sessions, c \in Channels, dbOk \in BOOLEAN : SendMessage(s, c, dbOk)
  \/ \E s \in Sessions, c \in Channels, gu \in BOOLEAN : StartTyping(s, c, gu)
  \/ \E s \in Sessions, c \in Channels : StopTyping(s, c)
  \/ \E s \in Sessions, st \in StatusInputs, dbOk \in BOOLEAN : UpdateStatus(s, st, dbOk)
  \/ \E s \in Sessions, call \in Calls : JoinCall(s, call)
  \/ \E s \in Sessions, call \in Calls : LeaveCall(s, call)
  \/ \E s \in Sessions, k \in SignalKinds, call \in Calls, from \in ClientFrom : WebRTC(s, k, call, from)
  \/ \E s \in Sessions : Ping(s)
  \/ \E s \in Sessions : IgnoredFrame(s)
  \/ \E s \in Sessions : Close(s)
  \/ \E s \in Sessions : StreamEnd(s)
  \/ \E u \in Users : HttpStartDirectCall(u)
  \/ \E u \in Users, c \in Channels, dbOk \in BOOLEAN : HttpSendMessage(u, c, dbOk)
  \/ \E u \in Users, call \in Calls, dbOk \in BOOLEAN : HttpEndCall(u, call, dbOk)

Spec == Init /\ [][Next]_vars

----------------------------------------------------------------------------
(* The Close arm at the grain of its await: the arm unregisters the user and
   suspends in users.update_status(..).await, where other session tasks run;
   when it resumes it broadcasts the offline notice, leaves the loop and runs
   the cleanup after the loop.  A session between the two steps has left
   `running` and still holds its user_id. *)

CloseArm(s) ==
  LET uid == user_id[s]
      hub1 == IF uid # None THEN unregister(hub, uid) ELSE hub
  IN /\ running[s]
     /\ Commit(Op("CloseArm", s, uid, None, "none", <<>>), hub1)
     /\ running' = [running EXCEPT ![s] = FALSE]
     /\ unregistered' = IF uid # None THEN unregistered \cup {uid} ELSE unregistered
     /\ UNCHANGED <<user_id, channel_members>>

CloseCleanup(s) ==
  LET uid == user_id[s]
      msg == Msg("UserStatusChanged", <<uid, "offline">>)
      sends == broadcast_to_all(hub, msg, uid)
      hub1 == unregister(hub, uid)
  IN /\ ~running[s]
     /\ uid # None
     /\ Commit(Op("CloseCleanup", s, uid, None, "none", sends), hub1)
     /\ user_id' = [user_id EXCEPT ![s] = None]
     /\ unregistered' = unregistered \cup {uid}
     /\ UNCHANGED <<running, channel_members>>

NextClose ==
  \/ \E s \in Sessions, u \in Users, gu \in BOOLEAN : AuthenticateOk(s, u, gu)
  \/ \E s \in Sessions, c \in Channels, dbOk \in BOOLEAN, gu \in BOOLEAN : JoinChannel(s, c, dbOk, gu)
  \/ \E s \in Sessions, call \in Calls : JoinCall(s, call)
  \/ \E s \in Sessions, st \in StatusInputs, dbOk \in BOOLEAN : UpdateStatus(s, st, dbOk)
  \/ \E s \in Sessions : CloseArm(s)
  \/ \E s \in Sessions : CloseCleanup(s)
  \/ \E s \in Sessions : StreamEnd(s)

SpecClose == Init /\ [][NextClose]_vars

----------------------------------------------------------------------------
(* The broadcast channels and the forwarding tasks.  register creates a
   tokio broadcast channel; its sender lives in the connections map and is
   dropped when the entry is replaced or removed; its receiver lives in the
   forwarding task spawned by the Authenticate arm. *)

\* a channel just created, its receiver in a running forwarding task
NewChannel ==
  [buf |-> <<>>, lagged |-> FALSE, rx |-> TRUE, missed |-> FALSE,
   pushed |-> <<>>, written |-> <<>>]

\* a channel whose forwarding task has ended: the receiver is dropped, and
\* what the task did is no longer followed; missed: a send on it gave an error
Ended ==
  [buf |-> <<>>, lagged |-> FALSE, rx |-> FALSE, missed |-> FALSE,
   pushed |-> <<>>, written |-> <<>>]

\* the n-th send pass puts `json` in a channel
Item(n, json) == [n |-> n, json |-> json]

\* the sender of channel h is still in the connections map
SenderLive(h) == h.user \in DOMAIN hub.connections /\ hub.connections[h.user] = h

\* the channels that still exist when the connections map is `conns`: a
\* channel is gone once its sender is dropped and its forwarding task ended
Live(ch, conns) ==
  LET keep == {h \in DOMAIN ch :
                 ch[h].rx \/ (h.user \in DOMAIN conns /\ conns[h.user] = h)}
  IN [h \in keep |-> ch[h]]

\* send that waits for room in a full buffer: it puts nothing in it
send_waits_when_full(ch, item) ==
  IF ~ch.rx THEN [ch EXCEPT !.missed = TRUE]
  ELSE IF Len(ch.buf) = Capacity THEN ch
  ELSE [ch EXCEPT !.buf = Append(@, item), !.pushed = Append(@, item.n)]

\* broadcast::Sender::send: an error when no receiver is left; else the item
\* is stored at once, and when the buffer is full the oldest item is
\* overwritten and the receiver marked as lagging
send(ch, item) ==
  IF ~ch.rx THEN [ch EXCEPT !.missed = TRUE]
  ELSE [ch EXCEPT !.buf = IF Len(@) = Capacity THEN Append(Tail(@), item)
                          ELSE Append(@, item),
                  !.lagged = @ \/ Len(ch.buf) = Capacity,
                  !.pushed = Append(@, item.n)]

\* the channels after the send calls of one pass
\* the pass that gives up at the first send call that finds no receiver
RECURSIVE Deliver_stops_at_miss(_, _, _)
Deliver_stops_at_miss(ch, sends, n) ==
  IF sends = <<>> THEN ch
  ELSE LET c == Head(sends)
       IN IF ~ch[c.handle].rx THEN [ch EXCEPT ![c.handle].missed = TRUE]
          ELSE Deliver_stops_at_miss([ch EXCEPT ![c.handle] = send(@, Item(n, c.json))],
                                     Tail(sends), n)

RECURSIVE Deliver(_, _, _)
Deliver(ch, sends, n) ==
  IF sends = <<>> THEN ch
  ELSE LET c == Head(sends)
       IN Deliver([ch EXCEPT ![c.handle] = send(@, Item(n, c.json))], Tail(sends), n)

\* One pass of send calls; the passes that make a send call are counted
Push(sends, hub2) ==
  /\ sends # <<>> => pushes < MaxPushes
  /\ hub' = hub2
  /\ chans' = Live(Deliver(chans, sends, pushes + 1), hub2.connections)
  /\ pushes' = IF sends # <<>> THEN pushes + 1 ELSE pushes
  /\ UNCHANGED <<lastOp, validated, pc>>

\* The Authenticate arm with the channel it creates and the forwarding task
\* it spawns; the sessions followed here authenticate once
FwdAuthenticate(s, uid) ==
  /\ running[s]
  /\ user_id[s] = None
  /\ user_id' = [user_id EXCEPT ![s] = uid]
  /\ hub' = register(hub, uid, Sender(s, uid))
  /\ chans' = Live(MapInsert(chans, Sender(s, uid), NewChannel),
                   register(hub, uid, Sender(s, uid)).connections)
  /\ unregistered' = unregistered \ {uid}
  /\ UNCHANGED <<running, channel_members, lastOp, pushes, validated, pc>>

\* JoinChannel of an authenticated session that is a durable member, with
\* its join notice when get_user succeeds (gu)
FwdJoinChannel(s, c, gu) ==
  LET uid == user_id[s]
      hub1 == subscribe_to_channel(hub, c, uid)
      msg == Msg("UserJoinedChannel", <<c, uid>>)
      sends == IF gu THEN broadcast_to_channel(hub1, c, msg, uid) ELSE <<>>
  IN /\ running[s]
     /\ uid # None
     /\ uid \in channel_members[c]
     /\ Push(sends, hub1)
     /\ SessionKept

\* SendMessage of an authenticated session whose message is persisted
FwdSendMessage(s, c) ==
  LET uid == user_id[s]
      msg == Msg("NewMessage", <<c, uid, Content>>)
      sends == broadcast_to_channel(hub, c, msg, None)
  IN /\ running[s]
     /\ uid # None
     /\ send_message(c, uid, TRUE)
     /\ Push(sends, hub)
     /\ SessionKept

\* handlers/calls.rs start_call, direct call: send_to_user
FwdSendToUser(target) ==
  LET msg == Msg("CallStarted", <<target>>)
  IN /\ Push(send_to_user(hub, target, msg), hub)
     /\ HttpKept

\* Message::Close of an authenticated session, with its broadcast_to_all
FwdClose(s) ==
  LET uid == user_id[s]
      hub1 == unregister(hub, uid)
      msg == Msg("UserStatusChanged", <<uid, "offline">>)
      sends == broadcast_to_all(hub1, msg, uid)
  IN /\ running[s]
     /\ uid # None
     /\ Push(sends, unregister(hub1, uid))
     /\ running' = [running EXCEPT ![s] = FALSE]
     /\ user_id' = [user_id EXCEPT ![s] = None]
     /\ unregistered' = unregistered \cup {uid}
     /\ UNCHANGED channel_members

\* The transport of session s goes down: writes to the session fail from
\* now on, and msg_stream.next() will give None
FwdDisconnect(s) ==
  /\ running[s]
  /\ running' = [running EXCEPT ![s] = FALSE]
  /\ UNCHANGED <<hub, user_id, channel_members, unregistered, lastOp, chans, pushes, validated, pc>>

\* The loop of a session whose transport is down ends; the cleanup after it
FwdCleanup(s) ==
  /\ ~running[s]
  /\ user_id[s] # None
  /\ hub' = unregister(hub, user_id[s])
  /\ user_id' = [user_id EXCEPT ![s] = None]
  /\ unregistered' = unregistered \cup {user_id[s]}
  /\ chans' = Live(chans, unregister(hub, user_id[s]).connections)
  /\ UNCHANGED <<running, channel_members, lastOp, pushes, validated, pc>>

\* the task that stops at a lag notification
Recv_stops_on_lag(h) ==
  /\ h \in DOMAIN chans
  /\ chans[h].rx
  /\ chans[h].lagged
  /\ chans' = Live([chans EXCEPT ![h] = Ended], hub.connections)
  /\ UNCHANGED <<hub, user_id, running, channel_members, unregistered, lastOp, pushes, validated, pc>>

\* the task that writes the oldest item and leaves it in the buffer
Recv_keeps_item(h) ==
  /\ h \in DOMAIN chans
  /\ chans[h].rx
  /\ chans[h].buf # <<>>
  /\ running[h.sess]
  /\ chans' = [chans EXCEPT ![h].written = Append(@, Head(chans[h].buf).n)]
  /\ UNCHANGED <<hub, user_id, running, channel_members, unregistered, lastOp, pushes, validated, pc>>

\* One pass of the loop of the forwarding task of channel h: rx.recv() gives
\* Lagged (continue), an item (written to the session; break when the write
\* fails), or Closed (break); it waits while the buffer is empty and the
\* sender lives
Recv(h) ==
  /\ h \in DOMAIN chans
  /\ chans[h].rx
  /\ \/ /\ chans[h].lagged
        /\ chans' = [chans EXCEPT ![h].lagged = FALSE]
     \/ /\ ~chans[h].lagged
        /\ chans[h].buf # <<>>
        /\ chans' = IF running[h.sess]
                    THEN [chans EXCEPT ![h].buf = Tail(@),
                                       ![h].written = Append(@, Head(chans[h].buf).n)]
                    ELSE Live([chans EXCEPT ![h] = Ended], hub.connections)
     \/ /\ ~chans[h].lagged
        /\ chans[h].buf = <<>>
        /\ ~SenderLive(h)
        /\ chans' = MapRemove(chans, h)
  /\ UNCHANGED <<hub, user_id, running, channel_members, unregistered, lastOp, pushes, validated, pc>>

NextFwd ==
  \/ \E s \in Sessions, u \in Users : FwdAuthenticate(s, u)
  \/ \E s \in Sessions, c \in Channels, gu \in BOOLEAN : FwdJoinChannel(s, c, gu)
  \/ \E s \in Sessions, c \in Channels : FwdSendMessage(s, c)
  \/ \E u \in Users : FwdSendToUser(u)
  \/ \E s \in Sessions : FwdClose(s)
  \/ \E s \in Sessions : FwdDisconnect(s)
  \/ \E s \in Sessions : FwdCleanup(s)
  \/ \E s \in Sessions, u \in Users : Recv(Sender(s, u))

\* A further Authenticate frame on a session that is already authenticated:
\* user_id is overwritten, register creates a new channel and stores its
\* sender, and one more forwarding task is spawned; the tasks spawned before
\* keep their receivers
FwdAuthenticateAgain(s, uid) ==
  /\ running[s]
  /\ user_id[s] # None
  /\ user_id' = [user_id EXCEPT ![s] = uid]
  /\ hub' = register(hub, uid, Sender(s, uid))
  /\ chans' = Live(MapInsert(chans, Sender(s, uid), NewChannel),
                   register(hub, uid, Sender(s, uid)).connections)
  /\ unregistered' = unregistered \ {uid}
  /\ UNCHANGED <<running, channel_members, lastOp, pushes, validated, pc>>

\* every user a durable member of every channel
InitFwd == Init /\ channel_members = [c \in Channels |-> Users]

SpecFwd == InitFwd /\ [][NextFwd]_vars

----------------------------------------------------------------------------
(* The life of the forwarding tasks of a session: sessions authenticate any
   number of times, lose their transport and run their cleanup, while users
   are sent direct notices.  The runtime schedules every task that can run:
   a forwarding task whose recv can return, and the cleanup of a session
   whose loop has ended. *)

NextTasks ==
  \/ \E s \in Sessions, u \in Users : FwdAuthenticate(s, u)
  \/ \E s \in Sessions, u \in Users : FwdAuthenticateAgain(s, u)
  \/ \E u \in Users : FwdSendToUser(u)
  \/ \E s \in Sessions : FwdDisconnect(s)
  \/ \E s \in Sessions : FwdCleanup(s)
  \/ \E s \in Sessions, u \in Users : Recv(Sender(s, u))

FairTasks ==
  /\ \A s \in Sessions : WF_vars(FwdCleanup(s))
  /\ \A s \in Sessions, u \in Users : WF_vars(Recv(Sender(s, u)))

SpecTasks == InitFwd /\ [][NextTasks]_vars /\ FairTasks

----------------------------------------------------------------------------
(* The Authenticate arm at the grain of its awaits.  register creates the
   channel and returns its receiver; the arm then awaits users.get_user and
   the write of the Authenticated reply, and only then spawns the forwarding
   task that owns the receiver.  Other tasks push to the user in between. *)

\* the item numbers of a buffer
Numbers(buf) == [i \in 1..Len(buf) |-> buf[i].n]

\* register that hands out no receiver: the task subscribes when spawned
GapRegister_no_receiver(s, uid) ==
  /\ running[s]
  /\ user_id[s] = None
  /\ pc[s] = Idle
  /\ user_id' = [user_id EXCEPT ![s] = uid]
  /\ hub' = register(hub, uid, Sender(s, uid))
  /\ chans' = Live(MapInsert(chans, Sender(s, uid), Ended),
                   register(hub, uid, Sender(s, uid)).connections)
  /\ unregistered' = unregistered \ {uid}
  /\ pc' = [pc EXCEPT ![s] = At("authenticate_lookup")]
  /\ UNCHANGED <<running, channel_members, lastOp, pushes, validated>>

\* lines 244-245: user_id = Some(uid); register(uid) returns the receiver;
\* the arm awaits get_user
GapRegister(s, uid) ==
  /\ running[s]
  /\ user_id[s] = None
  /\ pc[s] = Idle
  /\ user_id' = [user_id EXCEPT ![s] = uid]
  /\ hub' = register(hub, uid, Sender(s, uid))
  /\ chans' = Live(MapInsert(chans, Sender(s, uid), NewChannel),
                   register(hub, uid, Sender(s, uid)).connections)
  /\ unregistered' = unregistered \ {uid}
  /\ pc' = [pc EXCEPT ![s] = At("authenticate_lookup")]
  /\ UNCHANGED <<running, channel_members, lastOp, pushes, validated>>

\* lines 248-279: get_user has returned, the reply (if any) is written, and
\* the forwarding task is spawned with the receiver; todo keeps the numbers
\* of the payloads that were pending at that moment
GapSpawn(s) ==
  /\ pc[s] = At("authenticate_lookup")
  /\ pc' = [pc EXCEPT ![s] = [at |-> "forwarding",
                              todo |-> Numbers(chans[Sender(s, user_id[s])].buf),
                              held |-> {}]]
  /\ UNCHANGED <<hub, user_id, running, channel_members, unregistered, lastOp,
                 chans, pushes, validated>>

\* the forwarding task of channel h has been spawned
Spawned(h) == pc[h.sess].at = "forwarding"

GapRecv(h) == Spawned(h) /\ Recv(h)

\* the loop of a session ends only between two arms
GapCleanup(s) == pc[s] # At("authenticate_lookup") /\ FwdCleanup(s)

NextGap ==
  \/ \E s \in Sessions, u \in Users : GapRegister(s, u)
  \/ \E s \in Sessions : GapSpawn(s)
  \/ \E u \in Users : FwdSendToUser(u)
  \/ \E s \in Sessions : FwdDisconnect(s)
  \/ \E s \in Sessions : GapCleanup(s)
  \/ \E s \in Sessions, u \in Users : GapRecv(Sender(s, u))

FairGap ==
  /\ \A s \in Sessions : WF_vars(GapSpawn(s))
  /\ \A s \in Sessions, u \in Users : WF_vars(GapRecv(Sender(s, u)))

SpecGap == InitFwd /\ [][NextGap]_vars /\ FairGap

----------------------------------------------------------------------------
(* shared/src/validation.rs.  A string is the sequence of its characters, a
   character its code point. *)

\* a-z, A-Z, 0-9, '_' and '-', as the class [a-zA-Z0-9_-] lists them
NameClass == (97..122) \cup (65..90) \cup (48..57) \cup {95, 45}

\* ^[a-zA-Z0-9_-]{3,30}$ and ^[a-zA-Z0-9_-]{1,100}$: the class, the bounds of
\* the repetition, and the anchor `$` (the end of the text; no multi-line mode)
USERNAME_REGEX == [class |-> NameClass, min |-> 3, max |-> 30, end |-> TRUE]
CHANNEL_NAME_REGEX == [class |-> NameClass, min |-> 1, max |-> 100, end |-> TRUE]

\* the greedy repetition from position i of the text with n characters taken:
\* it takes characters of the class up to the upper bound, then needs the
\* lower bound reached and, if anchored, the text to end where it stopped
RECURSIVE Repeat(_, _, _, _)
Repeat(re, text, i, n) ==
  IF i <= Len(text) /\ n < re.max /\ text[i] \in re.class
  THEN Repeat(re, text, i + 1, n + 1)
  ELSE n >= re.min /\ (re.end => i = Len(text) + 1)

\* Regex::is_match of a pattern that starts with `^`
is_match(re, text) == Repeat(re, text, 1, 0)

\* the username pattern without its `$`
validate_username_unanchored(username) ==
  is_match([USERNAME_REGEX EXCEPT !.end = FALSE], username)

validate_username(username) == is_match(USERNAME_REGEX, username)

\* the channel name pattern with the lower bound 0
validate_channel_name_allows_empty(name) ==
  is_match([CHANNEL_NAME_REGEX EXCEPT !.min = 0], name)

validate_channel_name(name) == is_match(CHANNEL_NAME_REGEX, name)

\* the characters the inputs are made of: the ends of the ranges of the class
\* and their neighbours, '_', '-', '@', ' ', line feed, e-acute
Alphabet ==
  {97, 122, 65, 90, 48, 57, 95, 45, 96, 123, 64, 91, 47, 58, 32, 10, 233}

RECURSIVE WordsOf(_)
WordsOf(n) ==
  IF n = 0 THEN {<<>>}
  ELSE LET shorter == WordsOf(n - 1)
       IN shorter \cup {Append(w, c) : w \in shorter, c \in Alphabet}

Pad(n) == [i \in 1..n |-> 97]

\* the words of at most `word` characters before or after at most `pad` letters
Inputs(pad, word) ==
  {Pad(n) \o w : n \in 0..pad, w \in WordsOf(word)}
    \cup {w \o Pad(n) : n \in 0..pad, w \in WordsOf(word)}

HubKept ==
  UNCHANGED <<hub, user_id, running, channel_members, unregistered, lastOp,
              chans, pushes, pc>>

\* a string waits to be validated; the hub is idle
InitValidate ==
  /\ hub = new
  /\ user_id = [s \in Sessions |-> None]
  /\ running = [s \in Sessions |-> TRUE]
  /\ channel_members = [c \in Channels |-> Users]
  /\ unregistered = {}
  /\ lastOp = Op("init", Http, None, None, "none", <<>>)
  /\ chans = EmptyMap
  /\ pushes = 0
  /\ validated \in [fn : {None}, input : Inputs(MaxPad, MaxWord), result : {FALSE}]
  /\ pc = [s \in Sessions |-> Idle]

ValidateUsername ==
  /\ validated.fn = None
  /\ validated' = [fn |-> "validate_username", input |-> validated.input,
                   result |-> validate_username(validated.input)]
  /\ HubKept

ValidateChannelName ==
  /\ validated.fn = None
  /\ validated' = [fn |-> "validate_channel_name", input |-> validated.input,
                   result |-> validate_channel_name(validated.input)]
  /\ HubKept

NextValidate ==
  \/ ValidateUsername
  \/ ValidateChannelName

SpecValidate == InitValidate /\ [][NextValidate]_vars

----------------------------------------------------------------------------
(* register and unregister at the grain of their map writes.  The hub is one
   Arc shared by the session tasks of every worker thread, and neither method
   holds a lock across its statements: each DashMap call is atomic, and calls
   of other tasks run between two of them. *)

\* what a step inside register or unregister leaves alone
WriteKept == UNCHANGED <<channel_members, lastOp, chans, pushes, validated>>

\* Authenticate arm, `user_id = Some(uid)` and register line 42:
\* connections.insert(user_id, tx)
RegisterInsert(s, uid) ==
  /\ running[s]
  /\ pc[s] = Idle
  /\ user_id' = [user_id EXCEPT ![s] = uid]
  /\ hub' = [hub EXCEPT !.connections = MapInsert(@, uid, Sender(s, uid))]
  /\ pc' = [pc EXCEPT ![s] = At("register_status")]
  /\ UNCHANGED <<running, unregistered>>
  /\ WriteKept

\* register line 43: user_statuses.insert(user_id, Online); register returns
RegisterStatus(s) ==
  /\ pc[s] = At("register_status")
  /\ hub' = [hub EXCEPT !.user_statuses = MapInsert(@, user_id[s], "online")]
  /\ pc' = [pc EXCEPT ![s] = Idle]
  /\ unregistered' = unregistered \ {user_id[s]}
  /\ UNCHANGED <<user_id, running>>
  /\ WriteKept

\* the loop of an authenticated session ends; unregister line 49:
\* connections.remove(user_id)
UnregisterRemove(s) ==
  /\ running[s]
  /\ pc[s] = Idle
  /\ user_id[s] # None
  /\ hub' = [hub EXCEPT !.connections = MapRemove(@, user_id[s])]
  /\ running' = [running EXCEPT ![s] = FALSE]
  /\ pc' = [pc EXCEPT ![s] = At("unregister_status")]
  /\ UNCHANGED <<user_id, unregistered>>
  /\ WriteKept

\* unregister line 50: user_statuses.insert(*user_id, Offline)
UnregisterStatus(s) ==
  /\ pc[s] = At("unregister_status")
  /\ hub' = [hub EXCEPT !.user_statuses = MapInsert(@, user_id[s], "offline")]
  /\ pc' = [pc EXCEPT ![s] = At("unregister_subscriptions")]
  /\ UNCHANGED <<user_id, running, unregistered>>
  /\ WriteKept

\* unregister lines 53-60: the user leaves every subscription set; unregister
\* returns and the session task ends
UnregisterSubscriptions(s) ==
  /\ pc[s] = At("unregister_subscriptions")
  /\ hub' = [hub EXCEPT
               !.channel_subscriptions = [c \in DOMAIN @ |-> @[c] \ {user_id[s]}],
               !.call_subscriptions = [c \in DOMAIN @ |-> @[c] \ {user_id[s]}]]
  /\ pc' = [pc EXCEPT ![s] = Idle]
  /\ user_id' = [user_id EXCEPT ![s] = None]
  /\ unregistered' = unregistered \cup {user_id[s]}
  /\ UNCHANGED running
  /\ WriteKept

\* JoinCall arm of a session outside register and unregister
WriteJoinCall(s, call) ==
  /\ running[s]
  /\ pc[s] = Idle
  /\ user_id[s] # None
  /\ hub' = subscribe_to_call(hub, call, user_id[s])
  /\ UNCHANGED <<user_id, running, unregistered, pc>>
  /\ WriteKept

NextWrites ==
  \/ \E s \in Sessions, u \in Users : RegisterInsert(s, u)
  \/ \E s \in Sessions : RegisterStatus(s)
  \/ \E s \in Sessions : UnregisterRemove(s)
  \/ \E s \in Sessions : UnregisterStatus(s)
  \/ \E s \in Sessions : UnregisterSubscriptions(s)
  \/ \E s \in Sessions, call \in Calls : WriteJoinCall(s, call)

SpecWrites == Init /\ [][NextWrites]_vars

----------------------------------------------------------------------------
(* The hub at the grain of its map locks.  Every DashMap call takes the lock
   of the shard of its key: get, iter and contains_key a read lock, insert,
   remove, entry, get_mut and iter_mut a write lock; the guard a call returns
   keeps the lock until it is dropped.  Each map is followed as one shard, so
   that any two calls on a map contend.  A hub call is the list of its lock
   steps; a task takes them one at a time. *)

SubscriptionTables == {"channel_subscriptions", "call_subscriptions"}

\* take the lock of map m in a mode ("r" or "w")
LockIns(m, mode) ==
  [i |-> "lock", m |-> m, mode |-> mode, eff |-> "none", k |-> None, u |-> None]
\* drop the guard on map m, after the write `eff` (if any) made under it
UnlockIns(m, eff, k, u) ==
  [i |-> "unlock", m |-> m, mode |-> "none", eff |-> eff, k |-> k, u |-> u]
\* the loop over the subscribers of key k of table m, skipping user ex
IterateIns(m, k, ex) ==
  [i |-> "iterate", m |-> m, mode |-> "none", eff |-> "none", k |-> k, u |-> ex]

register_steps(u) ==
  <<LockIns("connections", "w"), UnlockIns("connections", "insert", None, u),
    LockIns("user_statuses", "w"), UnlockIns("user_statuses", "online", None, u)>>

\* unregister that keeps the guard on the connections map while it goes
\* through the subscription tables
unregister_steps_holding_connections(u) ==
  <<LockIns("connections", "w"),
    LockIns("user_statuses", "w"), UnlockIns("user_statuses", "offline", None, u),
    LockIns("channel_subscriptions", "w"),
    UnlockIns("channel_subscriptions", "drop", None, u),
    LockIns("call_subscriptions", "w"),
    UnlockIns("call_subscriptions", "drop", None, u),
    UnlockIns("connections", "remove", None, u)>>

unregister_steps(u) ==
  <<LockIns("connections", "w"), UnlockIns("connections", "remove", None, u),
    LockIns("user_statuses", "w"), UnlockIns("user_statuses", "offline", None, u),
    LockIns("channel_subscriptions", "w"),
    UnlockIns("channel_subscriptions", "drop", None, u),
    LockIns("call_subscriptions", "w"),
    UnlockIns("call_subscriptions", "drop", None, u)>>

\* subscribe_to_channel / subscribe_to_call: entry(k).or_insert_with(..).insert(u)
subscribe_steps(table, k, u) ==
  <<LockIns(table, "w"), UnlockIns(table, "subscribe", k, u)>>

\* unsubscribe_from_channel / unsubscribe_from_call: get_mut(k), remove(u)
unsubscribe_steps(table, k, u) ==
  <<LockIns(table, "w"), UnlockIns(table, "unsubscribe", k, u)>>

remove_call_steps(k) ==
  <<LockIns("call_subscriptions", "w"), UnlockIns("call_subscriptions", "remove_key", k, None)>>

\* broadcast_to_channel, send_to_call_participants and
\* get_online_users_in_channel: get(k) on the table, and under its guard one
\* connections.get (contains_key) for each subscriber
scoped_steps(table, k, ex) ==
  <<LockIns(table, "r"), IterateIns(table, k, ex), UnlockIns(table, "none", None, None)>>

\* broadcast_to_all: connections.iter(), the sends made under its guard;
\* skipping user ex takes no lock
broadcast_to_all_steps(ex) ==
  <<LockIns("connections", "r"), UnlockIns("connections", "none", None, None)>>

\* the body of the loop of scoped_steps over the subscribers the table holds
RECURSIVE LoopSteps(_, _)
LoopSteps(members, ex) ==
  IF members = <<>> THEN <<>>
  ELSE (IF Head(members) = ex THEN <<>>
        ELSE <<LockIns("connections", "r"), UnlockIns("connections", "none", None, None)>>)
       \o LoopSteps(Tail(members), ex)

\* the write `eff` of task s on the hub
Apply(ins, s) ==
  CASE ins.eff = "insert" ->
         [hub EXCEPT !.connections = MapInsert(@, ins.u, Sender(s, ins.u))]
    [] ins.eff = "remove" -> [hub EXCEPT !.connections = MapRemove(@, ins.u)]
    [] ins.eff = "online" -> [hub EXCEPT !.user_statuses = MapInsert(@, ins.u, "online")]
    [] ins.eff = "offline" -> [hub EXCEPT !.user_statuses = MapInsert(@, ins.u, "offline")]
    [] ins.eff = "drop" -> [hub EXCEPT ![ins.m] = [c \in DOMAIN @ |-> @[c] \ {ins.u}]]
    [] ins.eff = "subscribe" ->
         [hub EXCEPT ![ins.m] =
            MapInsert(@, ins.k, (IF ins.k \in DOMAIN @ THEN @[ins.k] ELSE {}) \cup {ins.u})]
    [] ins.eff = "unsubscribe" ->
         IF ins.k \in DOMAIN hub[ins.m]
         THEN [hub EXCEPT ![ins.m][ins.k] = @ \ {ins.u}]
         ELSE hub
    [] ins.eff = "remove_key" -> [hub EXCEPT ![ins.m] = MapRemove(@, ins.k)]
    [] OTHER -> hub

\* the lock of map m can be given to task s in `mode`: no task holds it in a
\* conflicting mode (s itself included: the locks are not reentrant)
CanLock(s, m, mode) ==
  \A t \in Sessions : \A h \in pc[t].held :
    h[1] = m => (mode = "r" /\ h[2] = "r")

\* task t waits for the write lock of map m
WaitsToWrite(t, m) ==
  /\ pc[t].todo # <<>>
  /\ Head(pc[t].todo) = LockIns(m, "w")
  /\ ~CanLock(t, m, "w")

\* the same under a lock that makes new readers queue behind a waiting writer
CanLockBehindWriters(s, m, mode) ==
  /\ CanLock(s, m, mode)
  /\ mode = "r" => \A t \in Sessions \ {s} : ~WaitsToWrite(t, m)

\* the session tasks' locals, the channels and the history of unregister
\* calls are not followed at this grain
LocksKept ==
  UNCHANGED <<user_id, running, channel_members, lastOp, chans, pushes, validated>>

\* task s, between two hub calls, starts one
Start(s) ==
  /\ pc[s] = Idle
  /\ UNCHANGED <<hub, unregistered>>
  /\ LocksKept

\* the lock steps of the call task s starts
Begin(s, steps) ==
  pc' = [pc EXCEPT ![s] = [at |-> "call", todo |-> steps, held |-> {}]]

StartRegister(s, u) == Start(s) /\ Begin(s, register_steps(u))
StartUnregister(s, u) == Start(s) /\ Begin(s, unregister_steps(u))
StartSubscribe(s, table, k, u) == Start(s) /\ Begin(s, subscribe_steps(table, k, u))
StartUnsubscribe(s, table, k, u) == Start(s) /\ Begin(s, unsubscribe_steps(table, k, u))
StartRemoveCall(s, k) == Start(s) /\ Begin(s, remove_call_steps(k))
StartScoped(s, table, k, ex) == Start(s) /\ Begin(s, scoped_steps(table, k, ex))
StartBroadcastToAll(s, ex) == Start(s) /\ Begin(s, broadcast_to_all_steps(ex))

\* what is left of a call after its first step
Rest(p, held) ==
  IF Tail(p.todo) = <<>> THEN Idle
  ELSE [at |-> "call", todo |-> Tail(p.todo), held |-> held]

Lock(s) ==
  LET ins == Head(pc[s].todo)
  IN /\ pc[s].todo # <<>>
     /\ ins.i = "lock"
     /\ CanLock(s, ins.m, ins.mode)
     /\ pc' = [pc EXCEPT ![s] = Rest(@, @.held \cup {<<ins.m, ins.mode>>})]
     /\ UNCHANGED <<hub, unregistered>>
     /\ LocksKept

Iterate(s) ==
  LET ins == Head(pc[s].todo)
      members == IF ins.k \in DOMAIN hub[ins.m] THEN SetToSeq(hub[ins.m][ins.k]) ELSE <<>>
  IN /\ pc[s].todo # <<>>
     /\ ins.i = "iterate"
     /\ pc' = [pc EXCEPT ![s].todo = LoopSteps(members, ins.u) \o Tail(@)]
     /\ UNCHANGED <<hub, unregistered>>
     /\ LocksKept

Unlock(s) ==
  LET ins == Head(pc[s].todo)
  IN /\ pc[s].todo # <<>>
     /\ ins.i = "unlock"
     /\ hub' = Apply(ins, s)
     /\ pc' = [pc EXCEPT ![s] = Rest(@, {h \in @.held : h[1] # ins.m})]
     /\ UNCHANGED unregistered
     /\ LocksKept

NextLocks ==
  \/ \E s \in Sessions, u \in Users : StartRegister(s, u)
  \/ \E s \in Sessions, u \in Users : StartUnregister(s, u)
  \/ \E s \in Sessions, u \in Users :
       \/ \E c \in Channels : StartSubscribe(s, "channel_subscriptions", c, u)
       \/ \E c \in Calls : StartSubscribe(s, "call_subscriptions", c, u)
  \/ \E s \in Sessions, u \in Users :
       \/ \E c \in Channels : StartUnsubscribe(s, "channel_subscriptions", c, u)
       \/ \E c \in Calls : StartUnsubscribe(s, "call_subscriptions", c, u)
  \/ \E s \in Sessions, c \in Calls : StartRemoveCall(s, c)
  \/ \E s \in Sessions, ex \in Users \cup {None} :
       \/ \E c \in Channels : StartScoped(s, "channel_subscriptions", c, ex)
       \/ \E c \in Calls : StartScoped(s, "call_subscriptions", c, ex)
  \/ \E s \in Sessions, ex \in Users \cup {None} : StartBroadcastToAll(s, ex)
  \/ \E s \in Sessions : Lock(s)
  \/ \E s \in Sessions : Iterate(s)
  \/ \E s \in Sessions : Unlock(s)

SpecLocks == InitFwd /\ [][NextLocks]_vars

----------------------------------------------------------------------------
(* Properties *)

\* the frames of the client protocol other than Authenticate
ClientFrames ==
  {"JoinChannel", "LeaveChannel", "SendMessage", "StartTyping", "StopTyping",
   "UpdateStatus", "JoinCall", "LeaveCall"} \cup SignalKinds

ChannelSubscribers(c) ==
  IF c \in DOMAIN hub.channel_subscriptions THEN hub.channel_subscriptions[c] ELSE {}

Subscribed(u) ==
  \/ \E c \in Channels : u \in ChannelSubscribers(c)
  \/ \E call \in Calls : u \in get_call_participants(hub, call)

Connected == DOMAIN hub.connections

\* the send calls of the last step: one to each user of `recipients`, on the
\* sender the connections map holds for that user, all with the text `json`
ExactlyOnce(recipients, json) ==
  /\ Len(lastOp.sends) = Cardinality(recipients)
  /\ {lastOp.sends[i].to : i \in 1..Len(lastOp.sends)} = recipients
  /\ \A i \in 1..Len(lastOp.sends) :
       /\ lastOp.sends[i].json = json
       /\ lastOp.sends[i].handle = hub.connections[lastOp.sends[i].to]

\* the from_user_id field of a serialized signaling message
from_user_id(json) == json[5]

\* session s is open, authenticated as u, and the connections map holds the
\* sender of the channel s registered for u
HoldsHandle(s, u) ==
  /\ running[s]
  /\ user_id[s] = u
  /\ u \in Connected
  /\ hub.connections[u] = Sender(s, u)

\* C1: a user who is in a channel's or a call's subscription set has a
\* connection handle, also when several sessions authenticate as that user.
C1_SubscribedHasHandle ==
  \A u \in Users : Subscribed(u) => u \in Connected

\* C2: once a newer session holds the handle registered for a user, no step
\* of another session other than a new Authenticate (closing included) takes
\* it away: pushes for the user keep going to the newer session.
C2_NewerSessionKeepsHandle ==
  [][\A s \in Sessions, u \in Users :
       (HoldsHandle(s, u) /\ lastOp'.sess # s /\ lastOp'.kind # "Authenticate")
         => HoldsHandle(s, u)']_vars

\* C3: a user for whom unregister has returned and who was not registered
\* since is in no subscription set and gets no push of any broadcast.
C3_UnregisteredStaysOut ==
  \A u \in unregistered :
    /\ ~Subscribed(u)
    /\ \A i \in 1..Len(lastOp.sends) : lastOp.sends[i].to # u

\* C4: a broadcast_to_channel over a subscriber set whose members all have a
\* handle, excluding a member e, makes exactly one send to every other
\* member, none to e, all with the same serialized text; the same for
\* send_to_call_participants over a call's set.
C4_FanOutExactlyOnce ==
  LET e == lastOp.user
      c == lastOp.scope
  IN /\ (/\ lastOp.kind = "StopTyping" /\ e # None
         /\ e \in ChannelSubscribers(c)
         /\ ChannelSubscribers(c) \subseteq Connected)
        => ExactlyOnce(ChannelSubscribers(c) \ {e},
                       to_string(Msg("UserStoppedTyping", <<c, e>>)))
     /\ (/\ lastOp.kind \in SignalKinds /\ e # None
         /\ e \in get_call_participants(hub, c)
         /\ get_call_participants(hub, c) \subseteq Connected)
        => ExactlyOnce(get_call_participants(hub, c) \ {e},
                       to_string(Msg(lastOp.kind, <<c, e, Sdp>>)))

C4_Witness ==
  /\ lastOp.kind = "StopTyping" /\ lastOp.user # None
  /\ lastOp.user \in ChannelSubscribers(lastOp.scope)
  /\ ChannelSubscribers(lastOp.scope) \subseteq Connected
  /\ Cardinality(ChannelSubscribers(lastOp.scope)) = 2
  /\ Len(lastOp.sends) = 1

\* C5: when the transport of an authenticated session closes, by a Close
\* frame or by the end or failure of the stream, an offline
\* UserStatusChanged for its user is sent exactly once to every other
\* connected user, and never to the user.
C5_OfflineNoticeOnEveryClose ==
  (lastOp.kind \in {"Close", "StreamEnd"} /\ lastOp.user # None)
    => ExactlyOnce(Connected \ {lastOp.user},
                   to_string(Msg("UserStatusChanged", <<lastOp.user, "offline">>)))

\* C6: a relayed signaling frame carries the session's authenticated user
\* as from_user_id, whatever the client wrote, and is never sent to that
\* user or on that user's own handle.
C6_RelayStampsSender ==
  (lastOp.kind \in SignalKinds /\ lastOp.user # None)
    => \A i \in 1..Len(lastOp.sends) :
         /\ from_user_id(lastOp.sends[i].json) = lastOp.user
         /\ lastOp.sends[i].to # lastOp.user
         /\ lastOp.user \in Connected
              => lastOp.sends[i].handle # hub.connections[lastOp.user]

C6_Witness ==
  /\ lastOp.kind = "WebRTCOffer" /\ lastOp.user # None
  /\ lastOp.from # lastOp.user
  /\ lastOp.user \in Connected
  /\ Len(lastOp.sends) = 1

\* C7: a step of a session that has no user_id before and after it (it never
\* completed an Authenticate) changes nothing in the hub, in the durable
\* memberships, and makes no send.
C7_UnauthenticatedHasNoEffect ==
  [][\A s \in Sessions :
       (running[s] /\ user_id[s] = None /\ user_id'[s] = None /\ lastOp'.sess = s)
         => /\ hub' = hub
            /\ channel_members' = channel_members
            /\ lastOp'.sends = <<>>]_vars

C7_Witness ==
  /\ lastOp.kind = "JoinCall" /\ lastOp.user = None
  /\ running[lastOp.sess]
  /\ Connected # {}
  /\ \E call \in Calls : get_call_participants(hub, call) # {}

\* C8: a frame other than Authenticate from a session with no user_id is
\* answered with an Error frame, and the session stays open so that a later
\* Authenticate on it can still succeed.
C8_UnauthenticatedFrameGetsError ==
  (lastOp.kind \in ClientFrames /\ lastOp.user = None)
    => /\ lastOp.reply = "Error"
       /\ running[lastOp.sess]
       /\ \A u \in Users : ENABLED AuthenticateOk(lastOp.sess, u, TRUE)

\* C9: JoinChannel subscribes the user only when is_member returns true;
\* when it returns false or fails the subscription sets are unchanged, no
\* join notice is sent and the session stays open.  Hence every subscriber
\* of a channel is a durable member of it.
C9_JoinOnlyForMembers ==
  [][lastOp'.kind = "JoinChannel" =>
       \A s \in Sessions, c \in Channels, dbOk \in BOOLEAN, gu \in BOOLEAN :
         JoinChannel(s, c, dbOk, gu)
           => /\ ~(dbOk /\ user_id[s] \in channel_members[c])
                   => /\ hub' = hub
                      /\ lastOp'.sends = <<>>
                      /\ running'[s]
              /\ \A x \in Channels :
                   ChannelSubscribers(x)' \subseteq channel_members[x]]_vars

C9_Witness ==
  /\ lastOp.kind = "JoinChannel" /\ lastOp.user # None
  /\ lastOp.user \notin channel_members[lastOp.scope]
  /\ lastOp.user \notin ChannelSubscribers(lastOp.scope)
  /\ ChannelSubscribers(lastOp.scope) # {}
  /\ running[lastOp.sess]

\* C10: when the collaborator fails nothing is broadcast: a failed
\* UpdateStatus sends no notice and leaves the presence map unchanged, a
\* failed SendMessage sends no NewMessage; the session stays open.
C10_CollaboratorFailureIsSilent ==
  [][/\ \A s \in Sessions, st \in StatusInputs :
          UpdateStatus(s, st, FALSE)
            => /\ hub'.user_statuses = hub.user_statuses
               /\ lastOp'.sends = <<>>
               /\ running'[s]
     /\ \A s \in Sessions, c \in Channels :
          SendMessage(s, c, FALSE)
            => /\ lastOp'.sends = <<>>
               /\ running'[s]]_vars

\* C12: once a session task has terminated, no user it registered keeps the
\* handle it registered: every sender left in the connections map was
\* registered by a session that is still running.
C12_TerminatedSessionLeavesNoHandle ==
  \A u \in Connected : running[hub.connections[u].sess]

\* C16: the subscription set of every call is a subset of the call's
\* durable participant list.
C16_CallSubscribersAreParticipants ==
  \A call \in Calls : get_call_participants(hub, call) \subseteq call_participants[call]

\* what a caller of the hub can observe of it: the status of every user,
\* the members of every subscription set, the connected users (the
\* recipients of a broadcast are a function of these)
Observables(h) ==
  [status |-> [u \in Users |-> get_user_status(h, u)],
   channels |-> [c \in Channels |->
                   IF c \in DOMAIN h.channel_subscriptions
                   THEN h.channel_subscriptions[c] ELSE {}],
   calls |-> [c \in Calls |-> get_call_participants(h, c)],
   connected |-> DOMAIN h.connections]

\* C17: unsubscribe_from_channel and unsubscribe_from_call for a user who is
\* not in the set, and unregister for a user with no handle and no
\* subscription, leave every observable of the hub unchanged.
C17_AbsentRemovalIsNoOp ==
  \A u \in Users :
    /\ \A c \in Channels :
         u \notin ChannelSubscribers(c)
           => Observables(unsubscribe_from_channel(hub, c, u)) = Observables(hub)
    /\ \A call \in Calls :
         u \notin get_call_participants(hub, call)
           => Observables(unsubscribe_from_call(hub, call, u)) = Observables(hub)
    /\ (u \notin Connected /\ ~Subscribed(u))
           => Observables(unregister(hub, u)) = Observables(hub)

\* C20: when a durable member sends SendMessage for a channel and
\* persistence succeeds, exactly one NewMessage is sent to every connected
\* subscriber of the channel (the sender included when subscribed) and none
\* to a user who is not subscribed.
C20_NewMessageToSubscribersOnly ==
  [][lastOp'.kind = "SendMessage" =>
       \A s \in Sessions, c \in Channels :
         (SendMessage(s, c, TRUE) /\ user_id[s] \in channel_members[c])
           => /\ Len(lastOp'.sends) = Cardinality(ChannelSubscribers(c) \cap Connected)
              /\ {lastOp'.sends[i].to : i \in 1..Len(lastOp'.sends)}
                   = ChannelSubscribers(c) \cap Connected
              /\ \A i \in 1..Len(lastOp'.sends) :
                   /\ lastOp'.sends[i].json
                        = to_string(Msg("NewMessage", <<c, user_id[s], Content>>))
                   /\ lastOp'.sends[i].handle = hub.connections[lastOp'.sends[i].to]]_vars

C20_Witness ==
  /\ lastOp.kind = "SendMessage" /\ lastOp.user # None
  /\ lastOp.user \in channel_members[lastOp.scope]
  /\ Len(lastOp.sends) = 1
  /\ Cardinality(Connected) = 2
  /\ channel_members[lastOp.scope] = Users

\* C11: the cleanup that runs after the Close arm has already unregistered
\* the user changes nothing in the connections map, the presence map or the
\* subscription tables, whatever other sessions did in between.
C11_SecondCleanupChangesNothing ==
  [][\A s \in Sessions : CloseCleanup(s) => hub' = hub]_vars

\* the live forwarding tasks
Tasks == {h \in DOMAIN chans : chans[h].rx}

\* this step stored `json` as the newest item of channel h, dropping the
\* oldest item and marking the lag if the buffer was full
Stored(h, json) ==
  /\ h \in DOMAIN chans'
  /\ chans'[h].buf = (IF Len(chans[h].buf) = Capacity
                      THEN Tail(chans[h].buf) ELSE chans[h].buf)
                     \o <<Item(pushes + 1, json)>>
  /\ Len(chans[h].buf) = Capacity => chans'[h].lagged

\* this step stored `json` in the channel of every user of `recipients`
\* whose forwarding task holds the receiver
StoredForAll(recipients, json) ==
  \A u \in recipients :
    hub.connections[u] \in Tasks => Stored(hub.connections[u], json)

TaskEnds(h) == chans[h].rx /\ ~(h \in DOMAIN chans' /\ chans'[h].rx)

\* C14 (as stated): a forwarding task that observes a lag keeps consuming,
\* and a forwarding task ends only when its broadcast channel is closed.
C14_TaskEndsOnlyOnClose ==
  [][\A h \in DOMAIN chans :
       /\ (Recv(h) /\ chans[h].lagged) => ~TaskEnds(h)
       /\ TaskEnds(h) => ~SenderLive(h)]_vars

\* C14 (amended): a forwarding task that observes a lag keeps consuming with
\* its buffer intact, and a forwarding task ends only when recv reports the
\* channel closed (sender dropped, buffer drained) or when the write of a
\* received item to the connection fails.
C14_TaskEndsOnCloseOrWriteFailure ==
  [][\A h \in DOMAIN chans :
       /\ (Recv(h) /\ chans[h].lagged)
            => /\ ~TaskEnds(h)
               /\ chans'[h].buf = chans[h].buf
       /\ TaskEnds(h)
            => /\ ~chans[h].lagged
               /\ \/ chans[h].buf = <<>> /\ ~SenderLive(h)
                  \/ chans[h].buf # <<>> /\ ~running[h.sess]]_vars

\* a task that lost item 1 to a lag has forwarded the items pushed later
C14_Witness ==
  \E h \in Tasks :
    /\ chans[h].pushed = <<1, 2, 3, 4>>
    /\ chans[h].written = <<2, 3, 4>>

RECURSIVE IsSubsequence(_, _)
IsSubsequence(a, b) ==
  IF a = <<>> THEN TRUE
  ELSE IF b = <<>> THEN FALSE
  ELSE IF Head(a) = Head(b) THEN IsSubsequence(Tail(a), Tail(b))
  ELSE IsSubsequence(a, Tail(b))

\* C15: what a forwarding task has written to its connection is a
\* subsequence of what was pushed to its channel: nothing out of order,
\* nothing twice.
C15_WrittenIsSubsequenceOfPushed ==
  \A h \in DOMAIN chans : IsSubsequence(chans[h].written, chans[h].pushed)

C15_Witness ==
  \E h \in Tasks :
    /\ chans[h].pushed = <<1, 2, 3, 4>>
    /\ chans[h].written = <<1, 3, 4>>

\* the hub in which user u has no handle
WithoutHandle(u) == [hub EXCEPT !.connections = MapRemove(@, u)]

\* the send calls of a pass that are not for user u
NotFor(sends, u) == SelectSeq(sends, LAMBDA x : x.to # u)

\* taking the handle of one user away takes only that user's send call out of
\* a pass over a channel's or a call's subscribers
MissingHandleIsLocal ==
  \A u \in Users :
    /\ \A c \in Channels :
         LET msg == Msg("NewMessage", <<c, u, Content>>)
         IN broadcast_to_channel(WithoutHandle(u), c, msg, None)
              = NotFor(broadcast_to_channel(hub, c, msg, None), u)
    /\ \A c \in Calls :
         LET msg == Msg("CallEnded", <<c>>)
         IN send_to_call_participants(WithoutHandle(u), c, msg, None)
              = NotFor(send_to_call_participants(hub, c, msg, None), u)

C19_AuthenticateHasAllEffects ==
  (lastOp.kind = "Authenticate" /\ lastOp.reply # "Error")
    => /\ lastOp.user \in Connected
       /\ hub.connections[lastOp.user] = Sender(lastOp.sess, lastOp.user)
       /\ get_user_status(hub, lastOp.user) = "online"
       /\ lastOp.reply = "Authenticated"

\* the frames and calls whose pushes go to the subscribers of a channel, and
\* those whose pushes go to the subscribers of a call
ChannelScoped ==
  {"JoinChannel", "LeaveChannel", "SendMessage", "StartTyping", "StopTyping",
   "HttpSendMessage"}
CallScoped == {"LeaveCall"} \cup SignalKinds

\* the users the send calls of the last step were made for
Reached == {lastOp.sends[i].to : i \in 1..Len(lastOp.sends)}

\* the last step was a leave by an authenticated user: the user is out of the
\* scope's subscription set and the notice went once to each connected
\* subscriber that remains, and not to the user
LeaveDone ==
  /\ (lastOp.kind = "LeaveChannel" /\ lastOp.user # None)
       => /\ lastOp.user \notin ChannelSubscribers(lastOp.scope)
          /\ ExactlyOnce((ChannelSubscribers(lastOp.scope) \cap Connected) \ {lastOp.user},
                         to_string(Msg("UserLeftChannel", <<lastOp.scope, lastOp.user>>)))
  /\ (lastOp.kind = "LeaveCall" /\ lastOp.user # None)
       => /\ lastOp.user \notin get_call_participants(hub, lastOp.scope)
          /\ ExactlyOnce((get_call_participants(hub, lastOp.scope) \cap Connected) \ {lastOp.user},
                         to_string(Msg("ParticipantLeft", <<lastOp.scope, lastOp.user>>)))

\* the pushes of the last step for a scope went to subscribers of the scope
ScopedPushesReachSubscribers ==
  /\ lastOp.kind \in ChannelScoped => Reached \subseteq ChannelSubscribers(lastOp.scope)
  /\ lastOp.kind \in CallScoped => Reached \subseteq get_call_participants(hub, lastOp.scope)

\* C21: LeaveChannel (LeaveCall) from user u takes u out of the channel's
\* (call's) subscription set and pushes the UserLeftChannel (ParticipantLeft)
\* notice to the remaining subscribers and not to u; a user who is not
\* subscribed to a scope gets no push for it, and becomes subscribed again
\* only by a JoinChannel (JoinCall) frame of a session of that user.
C21_LeaveStopsDelivery ==
  [][/\ LeaveDone'
     /\ ScopedPushesReachSubscribers'
     /\ lastOp'.kind = "HttpEndCall"
          => Reached' \subseteq get_call_participants(hub, lastOp'.scope)
                                 \cup ChannelSubscribers(call_channel[lastOp'.scope])
     /\ \A u \in Users :
          /\ \A c \in Channels :
               (u \notin ChannelSubscribers(c) /\ u \in ChannelSubscribers(c)')
                 => lastOp'.kind = "JoinChannel" /\ lastOp'.user = u /\ lastOp'.scope = c
          /\ \A c \in Calls :
               (u \notin get_call_participants(hub, c) /\ u \in get_call_participants(hub, c)')
                 => lastOp'.kind = "JoinCall" /\ lastOp'.user = u /\ lastOp'.scope = c]_vars

\* a user has left a channel in which a connected subscriber remains
C21_Witness ==
  /\ lastOp.kind = "LeaveChannel"
  /\ lastOp.user \in Users
  /\ lastOp.user \in Connected
  /\ Len(lastOp.sends) = 1
  /\ lastOp.sends[1].to # lastOp.user

\* the number of send calls the last step made for user u
TimesReached(u) == Cardinality({i \in 1..Len(lastOp.sends) : lastOp.sends[i].to = u})

\* C28: when end_call ends a call, every connected user gets the CallEnded
\* notice at most once, whether subscribed to the call, to its channel or to
\* both, and afterwards the call has no subscription entry.
C28_CallEndedAtMostOnce ==
  (lastOp.kind = "HttpEndCall" /\ lastOp.sends # <<>>)
    => /\ \A u \in Users : TimesReached(u) <= 1
       /\ lastOp.scope \notin DOMAIN hub.call_subscriptions

\* C23: a WebRTCOffer, WebRTCAnswer or WebRTCIceCandidate frame for a call is
\* pushed to the call's subscribers only when its sender is in the call's
\* subscription set.
C23_SignalingBetweenParticipantsOnly ==
  (lastOp.kind \in SignalKinds /\ lastOp.sends # <<>>)
    => lastOp.user \in get_call_participants(hub, lastOp.scope)

\* C29: StartTyping, StopTyping and LeaveChannel for a channel from an
\* authenticated user who is neither subscribed to the channel nor a durable
\* member of it push nothing to the channel's subscribers.
C29_OutsiderPushesNothing ==
  [][(/\ lastOp'.kind \in {"StartTyping", "StopTyping", "LeaveChannel"}
      /\ lastOp'.user # None
      /\ lastOp'.user \notin channel_members[lastOp'.scope]
      /\ lastOp'.user \notin ChannelSubscribers(lastOp'.scope))
       => lastOp'.sends = <<>>]_vars

\* an ASCII letter, a digit, '_' or '-'
NameChar(c) ==
  \/ c \in 65..90
  \/ c \in 97..122
  \/ c \in 48..57
  \/ c = 95
  \/ c = 45

\* every character of the text is a name character
AllNameChars(text) == \A i \in 1..Len(text) : NameChar(text[i])

\* C24: validate_username(s) is true exactly when s has 3 to 30 characters,
\* each an ASCII letter, a digit, '_' or '-'.
C24_UsernameRule ==
  validated.fn = "validate_username"
    => (validated.result
          <=> (/\ Len(validated.input) >= 3
               /\ Len(validated.input) <= 30
               /\ AllNameChars(validated.input)))

\* a username of 30 characters, a '-' among them, was accepted
C24_Witness ==
  /\ validated.fn = "validate_username"
  /\ Len(validated.input) = 30
  /\ validated.input[30] = 45
  /\ validated.result

\* C25: validate_channel_name(s) is true exactly when s has 1 to 100
\* characters, each an ASCII letter, a digit, '_' or '-'; the empty string and
\* a string with a space are refused.
C25_ChannelNameRule ==
  validated.fn = "validate_channel_name"
    => (validated.result
          <=> (/\ Len(validated.input) >= 1
               /\ Len(validated.input) <= 100
               /\ AllNameChars(validated.input)))

\* a channel name of 100 characters, a '_' among them, was accepted
C25_Witness ==
  /\ validated.fn = "validate_channel_name"
  /\ Len(validated.input) = 100
  /\ validated.input[1] = 95
  /\ validated.result

\* no task is inside register or unregister
AllReturned == \A s \in Sessions : pc[s] = Idle

\* C26: once concurrent register and unregister calls for a user have all
\* returned, the user either has a handle and presence online, or has no
\* handle and presence offline.
C26_HandleAndPresenceAgree ==
  AllReturned
    => \A u \in Users :
         \/ u \in Connected /\ get_user_status(hub, u) = "online"
         \/ u \notin Connected /\ get_user_status(hub, u) = "offline"

\* the tasks inside a hub call
InCall == {s \in Sessions : pc[s] # Idle}

\* task s, inside a call, can take its next step, also when readers queue
\* behind waiting writers
CanGoOn(s) ==
  LET ins == Head(pc[s].todo)
  IN ins.i = "lock" => CanLockBehindWriters(s, ins.m, ins.mode)

\* C27: the hub is deadlock-free: whenever tasks are inside hub calls, one of
\* them can take its next step; a task takes the lock of a subscription
\* table only while it holds no lock of the connections map, and the lock of
\* the connections map under a subscription table's lock, never the reverse.
C27_NoDeadlock ==
  /\ InCall # {} => \E s \in InCall : CanGoOn(s)
  /\ \A s \in InCall :
       LET ins == Head(pc[s].todo)
       IN (ins.i = "lock" /\ ins.m \in SubscriptionTables)
            => \A h \in pc[s].held : h[1] # "connections"

\* a task in the loop of a broadcast holds a subscription table's lock and
\* the lock of the connections map while another task waits to write the
\* connections map
C27_Witness ==
  \E s, t \in Sessions :
    /\ s # t
    /\ <<"channel_subscriptions", "r">> \in pc[s].held
    /\ <<"connections", "r">> \in pc[s].held
    /\ WaitsToWrite(t, "connections")

\* the transport of session s is closed and its cleanup has run
CleanedUp(s) == ~running[s] /\ user_id[s] = None

\* C22: under fair scheduling, once the transport of a session has closed
\* and its cleanup has run, every forwarding task the session spawned
\* eventually terminates.
C22_TasksEndAfterCleanup ==
  \A s \in Sessions, u \in Users :
    (CleanedUp(s) /\ Sender(s, u) \in Tasks) ~> (Sender(s, u) \notin Tasks)

\* the elements of a sequence
Range(seq) == {seq[i] : i \in 1..Len(seq)}

\* session s is between register and the spawn of its forwarding task
InGap(s) == pc[s] = At("authenticate_lookup")

\* a payload pushed to channel h was overwritten in its buffer
Overflowed(h) ==
  Len(chans[h].pushed) > Len(chans[h].written) + Len(chans[h].buf)

====
